---- MODULE Spec2Model ----
(***************************************************************************)
(* Model of package tlsredis (src/tlsredis.go): GetClient resolves a Redis *)
(* URL, looks the host up in the process-wide registry rcs, and on a miss  *)
(* configures the caller's Options in place, constructs a client with      *)
(* redis.NewClient and registers it under the host.                        *)
(*                                                                         *)
(* A goroutine is idle, between the registry lookup (line 70) and the rest *)
(* of a miss (lines 74-147), or holding the values GetClient returned.     *)
(* Spec, SpecTLS and SpecURL run calls one after another on the main       *)
(* goroutine, over different sets of calls; SpecConc lets goroutines       *)
(* interleave at the two accesses to rcs.  No lock guards rcs: an access   *)
(* that overlaps a write either takes effect as one step or makes the Go   *)
(* runtime end the process (fatal error: concurrent map writes).           *)
(***************************************************************************)
EXTENDS Integers, Sequences, FiniteSets, TLC

VARIABLES
    rcs,      \* var rcs map[string]*redis.Client
    clients,  \* per host, the clients redis.NewClient has constructed for it
    opts,     \* per goroutine, the redis.Options embedded in its *Options
    th        \* per goroutine: position, arguments of the call, return values

vars == <<rcs, clients, opts, th>>

-----------------------------------------------------------------------------
(* Bounds and input sets *)

NumThreads == 2
NumHosts == 2
MaxPathLen == 3

Threads == 1..NumThreads
\* the goroutine that makes the calls of a sequential run
Main == CHOOSE t \in Threads : \A s \in Threads : t <= s

HostNames == <<"a:6379", "b:6380", "c:6381", "d:6382">>
Hosts == {HostNames[i] : i \in 1..NumHosts}
\* the values u.Host takes: a host:port, or empty
Keys == Hosts \cup {""}
Schemes == {"redis", "rediss"}
PathChars == {"/", "-", "1", "x"}
Paths == {p \in UNION {[1..n -> PathChars] : n \in 0..MaxPathLen} :
            p = <<>> \/ p[1] = "/"}

\* u.User: nil, or userinfo with the password it carries ("" when it has none)
NoUser == [present |-> FALSE, password |-> ""]
Users == {NoUser, [present |-> TRUE, password |-> "pw"],
          [present |-> TRUE, password |-> ""]}

\* PEM files on disk that load, and the paths a caller may supply
Loadable == {"ca.pem", "client.key", "client.crt"}
CAFiles == {"", "ca.pem", "bad-ca.pem"}
PKFiles == {"", "client.key", "bad.key"}
CertFiles == {"", "client.crt", "bad.crt"}

\* the pool sizes a caller sets in a new Options value (0: left unset)
PoolSizes == {0, 10}

-----------------------------------------------------------------------------
(* strconv.Atoi and path.Split, as GetClient uses them *)

DigitChars == {"0", "1", "2", "3", "4", "5", "6", "7", "8", "9"}

DigitVal(c) ==
    CASE c = "0" -> 0 [] c = "1" -> 1 [] c = "2" -> 2 [] c = "3" -> 3
      [] c = "4" -> 4 [] c = "5" -> 5 [] c = "6" -> 6 [] c = "7" -> 7
      [] c = "8" -> 8 [] c = "9" -> 9

RECURSIVE Magnitude(_)
Magnitude(s) ==
    IF s = <<>> THEN 0
    ELSE 10 * Magnitude(SubSeq(s, 1, Len(s) - 1)) + DigitVal(s[Len(s)])

\* strconv.Atoi: an optional sign, then one or more decimal digits
Atoi(s) ==
    LET signed == Len(s) > 0 /\ s[1] \in {"+", "-"}
        body == IF signed THEN Tail(s) ELSE s
        bad == body = <<>> \/ \E i \in 1..Len(body) : body[i] \notin DigitChars
    IN  IF bad THEN [v |-> 0, err |-> TRUE]
        ELSE [v |-> IF signed /\ s[1] = "-" THEN 0 - Magnitude(body)
                    ELSE Magnitude(body),
              err |-> FALSE]

\* path.Split: the part after the final slash
SplitFile(p) ==
    LET slashes == {i \in 1..Len(p) : p[i] = "/"}
        last == IF slashes = {} THEN 0
                ELSE CHOOSE i \in slashes : \A j \in slashes : j <= i
    IN  SubSeq(p, last + 1, Len(p))

\* lines 79-89
Database(path) ==
    IF Len(path) > 0
    THEN LET r == Atoi(SplitFile(path))
         IN  IF r.err THEN 0 ELSE r.v
    ELSE 0

-----------------------------------------------------------------------------
(* Values *)

\* a *redis.Client: the n-th client constructed for host
Ptr(host, n) == [host |-> host, n |-> n]

\* a nil *redis.Client
NilClient == Ptr("", 0)

\* opts.Dialer before GetClient has set it
NilDialer == [proto |-> "none", addr |-> "", RootCAs |-> "", Certificates |-> <<>>]

\* a freshly allocated Options value: the embedded redis.Options
NewOptions(poolSize) ==
    [PoolSize |-> poolSize, Dialer |-> NilDialer, DB |-> 0, Password |-> ""]

\* the fields of *Options that GetClient only reads, RedisURL as url.Parse
\* returns it (parseErr: url.Parse failed; url.Parse lower-cases the scheme)
Args(parseErr, scheme, user, host, path, ca, pk, cert) ==
    [parseErr |-> parseErr,
     u |-> [Scheme |-> scheme, User |-> user, Host |-> host, Path |-> path],
     RedisCAFile |-> ca, ClientPKFile |-> pk, ClientCertFile |-> cert]

NoArgs == Args(FALSE, "", NoUser, "", <<>>, "", "", "")

\* a goroutine outside GetClient; made: the call constructed a client
Idle == [pc |-> "idle", args |-> NoArgs, rc |-> NilClient, err |-> "nil",
         made |-> FALSE]

-----------------------------------------------------------------------------
(* The steps of GetClient *)

\* line 70: rc, ok := rcs[u.Host]
Registered(reg, host) == host \in DOMAIN reg

\* Resolve without the check of line 66
ResolveNoHostCheck(reg, args) ==
    IF args.parseErr
    THEN [kind |-> "return", rc |-> NilClient, err |-> "parse"]
    ELSE IF Registered(reg, args.u.Host)
    THEN [kind |-> "return", rc |-> reg[args.u.Host], err |-> "nil"]
    ELSE [kind |-> "miss", rc |-> NilClient, err |-> "nil"]

\* lines 61-72: what the call does before it touches opts
\* kind "return": GetClient returns <<rc, err>>; kind "miss": it goes on
Resolve(reg, args) ==
    IF args.parseErr
    THEN [kind |-> "return", rc |-> NilClient, err |-> "parse"]
    ELSE IF args.u.Host = ""
    THEN [kind |-> "return", rc |-> NilClient, err |-> "nohost"]
    ELSE IF Registered(reg, args.u.Host)
    THEN [kind |-> "return", rc |-> reg[args.u.Host], err |-> "nil"]
    ELSE [kind |-> "miss", rc |-> NilClient, err |-> "nil"]

\* lines 75-77
DefaultPoolSize(o) == IF o.PoolSize = 0 THEN [o EXCEPT !.PoolSize = 3] ELSE o

\* UseEncryption as a prefix test, which the plain scheme passes too
UseEncryptionPrefix(u) == u.Scheme \in {"redis", "rediss"}

\* line 105: strings.EqualFold(u.Scheme, "rediss"), on a lower-cased scheme
UseEncryption(u) == u.Scheme = "rediss"

\* keyman.LoadCertificateFromFile (line 115)
LoadCertificateFromFile(file) ==
    IF file \in Loadable THEN [err |-> FALSE, pool |-> file]
    ELSE [err |-> TRUE, pool |-> ""]

\* tls.LoadX509KeyPair (line 126)
LoadX509KeyPair(certFile, keyFile) ==
    IF certFile \in Loadable /\ keyFile \in Loadable
    THEN [err |-> FALSE, cert |-> <<certFile, keyFile>>]
    ELSE [err |-> TRUE, cert |-> <<>>]

\* ClientAuthRequested with && for the || of line 122
ClientAuthEither(args) == ~(args.ClientPKFile = "" /\ args.ClientCertFile = "")

\* line 122, negated: the else branch is taken
ClientAuthRequested(args) == ~(args.ClientPKFile = "" \/ args.ClientCertFile = "")

\* TLSConfig falling back to the system roots when the CA file does not load
TLSConfigFallback(args) ==
    LET ca == LoadCertificateFromFile(args.RedisCAFile)
        kp == LoadX509KeyPair(args.ClientCertFile, args.ClientPKFile)
    IN  IF ClientAuthRequested(args) /\ kp.err
        THEN [err |-> "keypair", RootCAs |-> "", Certificates |-> <<>>]
        ELSE [err |-> "nil",
              RootCAs |-> IF args.RedisCAFile = "" \/ ca.err THEN "system"
                          ELSE ca.pool,
              Certificates |-> IF ClientAuthRequested(args) THEN <<kp.cert>>
                               ELSE <<>>]

\* lines 107-131: the tls.Config, or the error GetClient returns
TLSConfig(args) ==
    LET ca == LoadCertificateFromFile(args.RedisCAFile)
        kp == LoadX509KeyPair(args.ClientCertFile, args.ClientPKFile)
    IN  IF args.RedisCAFile # "" /\ ca.err
        THEN [err |-> "ca", RootCAs |-> "", Certificates |-> <<>>]
        ELSE IF ClientAuthRequested(args) /\ kp.err
        THEN [err |-> "keypair", RootCAs |-> "", Certificates |-> <<>>]
        ELSE [err |-> "nil",
              RootCAs |-> IF args.RedisCAFile = "" THEN "system" ELSE ca.pool,
              Certificates |-> IF ClientAuthRequested(args) THEN <<kp.cert>>
                               ELSE <<>>]

\* lines 101-103: dialer.Dial("tcp", u.Host)
PlainDial(host) ==
    [proto |-> "tcp", addr |-> host, RootCAs |-> "", Certificates |-> <<>>]

\* lines 133-135: tls.DialWithDialer(dialer, "tcp", u.Host, tlsConfig)
TLSDial(host, cfg) ==
    [proto |-> "tls", addr |-> host, RootCAs |-> cfg.RootCAs,
     Certificates |-> cfg.Certificates]

\* lines 101-136: dialFunc and the error of the TLS set-up
DialFunc(args) ==
    IF UseEncryption(args.u)
    THEN LET cfg == TLSConfig(args)
         IN  [err |-> cfg.err, dial |-> TLSDial(args.u.Host, cfg)]
    ELSE [err |-> "nil", dial |-> PlainDial(args.u.Host)]

\* lines 140-143
SetPassword(o, u) ==
    IF u.User.present THEN [o EXCEPT !.Password = u.User.password] ELSE o

\* lines 138-143: the Options as handed to redis.NewClient
Fill(o, args, dial) ==
    SetPassword([o EXCEPT !.Dialer = dial, !.DB = Database(args.u.Path)], args.u)

\* lines 74-147 on a miss: opts as the call leaves it, the client it
\* constructs (made = TRUE) or the error it returns
Configure(o, args) ==
    LET o1 == DefaultPoolSize(o)
        d == DialFunc(args)
    IN  IF d.err # "nil"
        THEN [opts |-> o1, made |-> FALSE, err |-> d.err]
        ELSE [opts |-> Fill(o1, args, d.dial), made |-> TRUE, err |-> "nil"]

\* Register without the assignment of line 146
RegisterNothing(reg, host, rc) == reg

\* line 146: rcs[u.Host] = rc
Register(reg, host, rc) ==
    [h \in DOMAIN reg \cup {host} |-> IF h = host THEN rc ELSE reg[h]]

-----------------------------------------------------------------------------
(* The calls a caller makes *)

\* a RedisURL that url.Parse rejects
BadURL == Args(TRUE, "", NoUser, "", <<>>, "", "", "")

\* calls that differ in every part of the URL and in the files they name
MixArgs ==
    {Args(FALSE, s, user, h, p, f, f, f) :
        s \in Schemes, user \in {NoUser, [present |-> TRUE, password |-> "pw"]},
        h \in Keys, p \in {<<>>, <<"/", "1">>},
        f \in {"", "missing.pem"}} \cup {BadURL}

\* calls that differ in the scheme and in every combination of the files
TLSArgs ==
    {Args(FALSE, s, NoUser, h, <<>>, ca, pk, cert) :
        s \in Schemes, h \in Keys,
        ca \in CAFiles, pk \in PKFiles, cert \in CertFiles}

\* calls that differ in the path and the userinfo of the URL
URLArgs ==
    {Args(FALSE, "redis", user, h, p, "", "", "") :
        user \in Users, h \in Hosts, p \in Paths}

\* the calls goroutines race with
ConcArgs ==
    {Args(FALSE, s, NoUser, h, <<>>, "", "", "") : s \in Schemes, h \in Hosts}

-----------------------------------------------------------------------------
(* Actions *)

Init ==
    /\ rcs = <<>>
    /\ clients = [h \in Keys |-> <<>>]
    /\ opts = [t \in Threads |-> NewOptions(0)]
    /\ th = [t \in Threads |-> Idle]

\* GetClient returns from lines 63, 67 or 71
ReturnEarly(t, args, r) ==
    /\ th' = [th EXCEPT ![t] = [pc |-> "done", args |-> args, rc |-> r.rc,
                                err |-> r.err, made |-> FALSE]]
    /\ UNCHANGED <<rcs, clients, opts>>

\* lines 74-147
Miss(t, args) ==
    LET c == Configure(opts[t], args)
        host == args.u.Host
        rc == Ptr(host, Len(clients[host]) + 1)
    IN  /\ opts' = [opts EXCEPT ![t] = c.opts]
        /\ IF c.made
           THEN /\ clients' = [clients EXCEPT ![host] = Append(@, c.opts)]
                /\ rcs' = Register(rcs, args.u.Host, rc)
                /\ th' = [th EXCEPT ![t] = [pc |-> "done", args |-> args,
                                            rc |-> rc, err |-> "nil",
                                            made |-> TRUE]]
           ELSE /\ UNCHANGED <<rcs, clients>>
                /\ th' = [th EXCEPT ![t] = [pc |-> "done", args |-> args,
                                            rc |-> NilClient, err |-> c.err,
                                            made |-> FALSE]]

\* a whole call of GetClient, lines 60-148
GetClient(t, args) ==
    /\ th[t].pc = "idle"
    /\ LET r == Resolve(rcs, args)
       IN  IF r.kind = "return" THEN ReturnEarly(t, args, r) ELSE Miss(t, args)

\* lines 60-72 of a call that runs beside others
Lookup(t, args) ==
    /\ th[t].pc = "idle"
    /\ LET r == Resolve(rcs, args)
       IN  IF r.kind = "return" THEN ReturnEarly(t, args, r)
           ELSE /\ th' = [th EXCEPT ![t] = [pc |-> "miss", args |-> args,
                                            rc |-> NilClient, err |-> "nil",
                                            made |-> FALSE]]
                /\ UNCHANGED <<rcs, clients, opts>>

\* lines 74-147 of a call that runs beside others
Build(t) ==
    /\ th[t].pc = "miss"
    /\ Miss(t, th[t].args)

\* lines 70 and 146 without a lock: while goroutine t is about to write rcs,
\* another goroutine reads or writes it and the runtime ends every goroutine
Fatal(t) ==
    /\ th[t].pc = "miss"
    /\ \E u \in Threads \ {t} : th[u].pc \in {"idle", "miss"}
    /\ th' = [u \in Threads |-> [Idle EXCEPT !.pc = "fatal"]]
    /\ UNCHANGED <<rcs, clients, opts>>

\* the caller takes the returned values and goes on
Resume(t) ==
    /\ th[t].pc = "done"
    /\ th' = [th EXCEPT ![t] = Idle]
    /\ UNCHANGED <<rcs, clients, opts>>

\* the caller allocates a new Options value for its next call
Allocate(t) ==
    /\ th[t].pc = "idle"
    /\ \E n \in PoolSizes :
          /\ opts[t] # NewOptions(n)
          /\ opts' = [opts EXCEPT ![t] = NewOptions(n)]
    /\ UNCHANGED <<rcs, clients, th>>

\* calls made one after another by the main goroutine, from a set of calls
Calls(A) == \E args \in A : GetClient(Main, args)

Next == Calls(MixArgs) \/ Resume(Main) \/ Allocate(Main)

Spec == Init /\ [][Next]_vars

NextTLS == Calls(TLSArgs) \/ Resume(Main) \/ Allocate(Main)

SpecTLS == Init /\ [][NextTLS]_vars

NextURL == Calls(URLArgs) \/ Resume(Main) \/ Allocate(Main)

SpecURL == Init /\ [][NextURL]_vars

\* goroutines that call GetClient beside one another, each with its own Options
NextConc ==
    \/ \E t \in Threads, args \in ConcArgs : Lookup(t, args)
    \/ \E t \in Threads : Build(t)
    \/ \E t \in Threads : Fatal(t)
    \/ \E t \in Threads : Resume(t)

SpecConc == Init /\ [][NextConc]_vars

-----------------------------------------------------------------------------
(* Vocabulary of the properties *)

\* the client a handle points to, as redis.NewClient received its options
Deref(p) == clients[p.host][p.n]

\* goroutine t holds the values a call returned
Returned(t) == th[t].pc = "done"
Succeeded(t) == Returned(t) /\ th[t].err = "nil"

\* this step is a whole call of GetClient by the main goroutine
CallStep == th[Main].pc = "idle" /\ th'[Main].pc = "done"

\* the files the call names that do not load
CAFails(args) == args.RedisCAFile # "" /\ args.RedisCAFile \notin Loadable
BothGiven(args) == args.ClientPKFile # "" /\ args.ClientCertFile # ""
PairLoads(args) == args.ClientPKFile \in Loadable /\ args.ClientCertFile \in Loadable

\* the call of this step finds no handle registered and is for an encrypted URL
EncryptedMiss(args) ==
    /\ ~args.parseErr
    /\ args.u.Host # ""
    /\ args.u.Host \notin DOMAIN rcs
    /\ args.u.Scheme = "rediss"

\* the client identity of the handle the call constructed, <<>> if none
Identity(t) ==
    IF th[t].made THEN Deref(th[t].rc).Dialer.Certificates ELSE <<>>

-----------------------------------------------------------------------------
(* C1: under every interleaving of concurrent first-time calls for one
   host:port, at most one client is constructed for it, one handle is
   registered for it, and every successful call returns that handle. *)
C1_OneClientPerHost ==
    /\ \A h \in Hosts : Len(clients[h]) <= 1
    /\ \A t \in Threads :
          Succeeded(t) =>
             /\ th[t].args.u.Host \in DOMAIN rcs
             /\ th[t].rc = rcs[th[t].args.u.Host]

(* C2: in a sequential series of calls every successful call for a host:port
   returns the handle of the first one, the constructor runs exactly once per
   host:port, and a call for a registered host:port succeeds whatever its
   scheme, path, userinfo and files are. *)
C2_CacheHit ==
    /\ \A h \in Hosts :
          /\ Len(clients[h]) <= 1
          /\ h \in DOMAIN rcs <=> Len(clients[h]) = 1
          /\ h \in DOMAIN rcs => rcs[h] = Ptr(h, 1)
    /\ Succeeded(Main) => th[Main].rc = Ptr(th[Main].args.u.Host, 1)
    /\ LET a == th[Main].args
       IN  (Returned(Main) /\ ~a.parseErr /\ a.u.Host # "" /\ ~th[Main].made
            /\ Len(clients[a.u.Host]) > 0)
           => th[Main].err = "nil"

\* a call for a registered host returned its handle although it named an
\* encrypted scheme, a path, userinfo and files that do not load
C2_Witness ==
    LET a == th[Main].args
    IN  /\ Succeeded(Main) /\ ~th[Main].made
        /\ a.u.Scheme = "rediss" /\ a.u.User.present /\ a.u.Path # <<>>
        /\ CAFails(a) /\ BothGiven(a) /\ ~PairLoads(a)
        /\ Deref(th[Main].rc).Dialer.proto = "tcp"
        /\ Cardinality(DOMAIN rcs) >= 2

\* the step C3 is about
C3_ConfigErrorStep ==
    LET a == th'[Main].args
    IN  (CallStep /\ EncryptedMiss(a) /\ (CAFails(a) \/ (BothGiven(a) /\ ~PairLoads(a))))
        => /\ th'[Main].err \in {"ca", "keypair"}
           /\ th'[Main].rc = NilClient
           /\ clients' = clients
           /\ rcs' = rcs
(* C3: an encrypted call for an unregistered host:port that names a CA file
   or a key/cert pair that does not load returns an error and no handle,
   constructs no client and leaves the registry as it was. *)
C3_ConfigErrorLeavesRegistry == [][C3_ConfigErrorStep]_vars

\* a call failed on its key pair while another host was registered
C3_Witness ==
    /\ Returned(Main) /\ th[Main].err = "keypair"
    /\ th[Main].args.u.Host \in Hosts \ DOMAIN rcs
    /\ DOMAIN rcs # {}

\* the step C4 is about, and the empty host in the state it leads to
C4_ParseErrorStep ==
    /\ LET a == th'[Main].args
       IN  (CallStep /\ (a.parseErr \/ a.u.Host = ""))
           => /\ th'[Main].err \in {"parse", "nohost"}
              /\ th'[Main].rc = NilClient
              /\ clients' = clients
              /\ rcs' = rcs
    /\ "" \notin DOMAIN rcs'
    /\ clients'[""] = <<>>
    /\ Succeeded(Main)' => th'[Main].rc.host # ""
(* C4: a call whose URL does not parse or has no host returns an error and no
   handle in every registry state, constructs no client and leaves the
   registry as it was; no handle is ever registered or returned for an empty
   host. *)
C4_ParseErrorLeavesRegistry == [][C4_ParseErrorStep]_vars

\* a call without a host failed while a host was registered
C4_Witness ==
    /\ Returned(Main) /\ th[Main].err = "nohost"
    /\ th[Main].args.u.Host = "" /\ ~th[Main].args.parseErr
    /\ DOMAIN rcs # {}

\* the non-negative integer a path's final segment denotes, 0 if none
RECURSIVE DecimalValue(_)
DecimalValue(s) ==
    IF s = <<>> THEN 0
    ELSE 10 * DecimalValue(SubSeq(s, 1, Len(s) - 1))
         + (CHOOSE d \in 0..9 : ToString(d) = s[Len(s)])
FinalSegment(p) ==
    IF \E i \in 1..Len(p) : p[i] = "/"
    THEN LET i == CHOOSE j \in 1..Len(p) :
                     p[j] = "/" /\ \A k \in (j + 1)..Len(p) : p[k] # "/"
         IN  SubSeq(p, i + 1, Len(p))
    ELSE p
ExpectedDB(p) ==
    LET seg == FinalSegment(p)
    IN  IF seg # <<>> /\ \A i \in 1..Len(seg) : seg[i] \in DigitChars
        THEN DecimalValue(seg) ELSE 0

(* C5: the database index of every newly constructed client is non-negative:
   the value of the path's final segment when that is a non-negative integer,
   and 0 otherwise. *)
C5_DatabaseNonNegative ==
    th[Main].made =>
       /\ Deref(th[Main].rc).DB >= 0
       /\ Deref(th[Main].rc).DB = ExpectedDB(th[Main].args.u.Path)

(* C6: a client constructed for a URL without userinfo is handed an empty
   password, whatever calls came before; with userinfo it is handed the
   URL's password. *)
C6_PasswordFromURL ==
    th[Main].made =>
       Deref(th[Main].rc).Password =
          (IF th[Main].args.u.User.present
           THEN th[Main].args.u.User.password ELSE "")

(* C7: every successful call whose URL has the plain scheme returns a handle
   whose dial function is the plain TCP dialer to host:port. *)
C7_PlainSchemePlainDial ==
    (Succeeded(Main) /\ th[Main].args.u.Scheme = "redis")
    => /\ Deref(th[Main].rc).Dialer.proto = "tcp"
       /\ Deref(th[Main].rc).Dialer.addr = th[Main].args.u.Host

(* C7, amended: every successful call whose URL has the plain scheme and
   which constructs the client returns a handle whose dial function is the
   plain TCP dialer to host:port. *)
C7_PlainSchemePlainDialOnMiss ==
    (Succeeded(Main) /\ th[Main].made /\ th[Main].args.u.Scheme = "redis")
    => /\ Deref(th[Main].rc).Dialer.proto = "tcp"
       /\ Deref(th[Main].rc).Dialer.addr = th[Main].args.u.Host
       /\ Deref(th[Main].rc).Dialer.Certificates = <<>>

\* a plain call constructed a client although it named files, after an
\* encrypted client was registered for another host
C7_Witness ==
    /\ Succeeded(Main) /\ th[Main].made /\ th[Main].args.u.Scheme = "redis"
    /\ th[Main].args.RedisCAFile # "" /\ BothGiven(th[Main].args)
    /\ \E h \in DOMAIN rcs : Deref(rcs[h]).Dialer.proto = "tls"

\* the step C8 is about, as the claim states it
C8_IdentityStep ==
    LET a == th'[Main].args
    IN  (CallStep /\ EncryptedMiss(a))
        => /\ Identity(Main)' # <<>> <=> (BothGiven(a) /\ PairLoads(a))
           /\ ~BothGiven(a) => (Succeeded(Main)' /\ Identity(Main)' = <<>>)
           /\ (BothGiven(a) /\ ~PairLoads(a)) => ~Succeeded(Main)'
(* C8: on an encrypted miss a client identity is attached exactly when both
   the key and the cert path are given and the pair loads; with one or
   neither given the call succeeds without an identity; with both given and
   not loading the call fails. *)
C8_IdentityIffBothLoad == [][C8_IdentityStep]_vars

\* the step C8 is about, with the CA file taken into account
C8_IdentityStepCAOk ==
    LET a == th'[Main].args
    IN  (CallStep /\ EncryptedMiss(a))
        => IF CAFails(a)
           THEN ~Succeeded(Main)' /\ Identity(Main)' = <<>>
           ELSE /\ Identity(Main)' # <<>> <=> (BothGiven(a) /\ PairLoads(a))
                /\ (BothGiven(a) /\ PairLoads(a)) =>
                      Identity(Main)' = << <<a.ClientCertFile, a.ClientPKFile>> >>
                /\ ~BothGiven(a) =>
                      (Succeeded(Main)' /\ th'[Main].made /\ Identity(Main)' = <<>>)
                /\ (BothGiven(a) /\ ~PairLoads(a)) => th'[Main].err = "keypair"
(* C8, amended: on an encrypted miss whose CA file is not given or loads, a
   client identity (the pair given) is attached exactly when both the key and
   the cert path are given and the pair loads; with one or neither given the
   call succeeds without an identity; with both given and not loading the
   call fails with the key pair's error.  When a given CA file does not load
   the call fails and no identity is attached. *)
C8_IdentityIffBothLoadCAOk == [][C8_IdentityStepCAOk]_vars

\* an encrypted call that named only a key, one that does not load,
\* constructed a client without an identity
C8_Witness ==
    LET a == th[Main].args
    IN  /\ Succeeded(Main) /\ th[Main].made /\ a.u.Scheme = "rediss"
        /\ a.ClientPKFile \notin Loadable \cup {""} /\ a.ClientCertFile = ""
        /\ Identity(Main) = <<>>
        /\ \E h \in DOMAIN rcs : Deref(rcs[h]).Dialer.Certificates # <<>>

(* C9: once a host:port is mapped to a handle it stays mapped, to the same
   handle, in every later state of every interleaving of calls. *)
C9_EntriesStable ==
    [][\A h \in DOMAIN rcs : h \in DOMAIN rcs' /\ rcs'[h] = rcs[h]]_vars

(* C10: no call of GetClient changes a field of the Options it was given. *)
C10_OptionsUnchanged == [][CallStep => opts' = opts]_vars

=============================================================================
